---------------------------- MODULE Spec2Model ----------------------------
(***************************************************************************)
(* State-machine model of the resumable PetFinder collection pipeline of   *)
(* src/data/cat/2025-08-11/petfinder_collector.py:                         *)
(*   main -> get_status_summary -> collect_all_states                      *)
(*        -> collect_state_data -> _make_request, and combine_state_files. *)
(*                                                                         *)
(* Disk state: the progress JSON file, one CSV file per location, the      *)
(* combined CSV.  Memory state: the locals of collect_all_states and of    *)
(* collect_state_data of the single running process.  The process can be   *)
(* killed between any two steps; memory is lost, disk is kept.             *)
(*                                                                         *)
(* Four views of it are specified: Spec (collect_all_states called on a    *)
(* client), SpecMain and SpecScript (the script run through main()),       *)
(* SpecCombine (combine_state_files on a directory of per-location files)  *)
(* and SpecRequest (_make_request with every answer the API can give).     *)
(* SpecColor is color_classifier of src/data/data_prep_utils.py applied    *)
(* to one argument.  SpecHealthy is Spec with weak fairness, in which the   *)
(* last call of collect_all_states resumes and meets no fault.             *)
(*                                                                         *)
(* The 'accessed' timestamp and session_start_time are wall-clock values   *)
(* that no decision of the pipeline reads; they are left out of the rows   *)
(* and of the progress record.                                             *)
(***************************************************************************)
EXTENDS Integers, Sequences, FiniteSets, TLC

\* ------------------------------------------------------------------ bounds
\* How many of the two-letter codes of DEFAULT_US_STATES the model keeps.
NumStates == 1
\* Largest total_pages the API reports for a location.
MaxPages == 2
\* How many times the process is started (main() or collect_all_states).
MaxRuns == 3
\* How many colours a colour combination lists at most.
MaxColors == 3

\* --------------------------------------------------------- location tables
\* NV_POSTCODES (line 65), cut to its first entry.
NV_POSTCODES == <<"89009">>

\* DEFAULT_US_STATES (lines 66-73), cut to its first NumStates entries.
DEFAULT_US_STATES == SubSeq(<<"AL", "AK", "AZ", "AR", "CA">>, 1, NumStates)

\* US_STATES = NV_POSTCODES + DEFAULT_US_STATES (line 74).
US_STATES == NV_POSTCODES \o DEFAULT_US_STATES

Range(s) == {s[i] : i \in 1..Len(s)}

Locations == Range(US_STATES)

\* `x in list`
InSeq(x, s) == \E i \in 1..Len(s) : s[i] = x

\* list.remove(x): drops the first occurrence of x.
RemoveFirst(s, x) ==
  IF ~InSeq(x, s) THEN s
  ELSE LET i == CHOOSE k \in 1..Len(s) : s[k] = x /\ \A j \in 1..(k-1) : s[j] # x
       IN  SubSeq(s, 1, i-1) \o SubSeq(s, i+1, Len(s))

\* Position of a location in US_STATES.
IndexOf(loc) == CHOOSE i \in 1..Len(US_STATES) : US_STATES[i] = loc

\* ------------------------------------------------------------ rows, files
\* The header line a CSV gets from to_csv(..., header=True).
Header == [kind |-> "header", id |-> 0, stateQ |-> "stateQ"]

\* The region a location queries: every Nevada postcode queries Nevada.
Region(loc) == IF InSeq(loc, NV_POSTCODES) THEN "NV" ELSE loc

RegionIndex(r) == IF r = "NV" THEN 0 ELSE IndexOf(r)

\* id of the animal the API lists on page `page` of a region.
AnimalId(loc, page) == RegionIndex(Region(loc)) * 10 + page

\* _flatten_animal_data: the flat row of an animal, tagged with the location
\* it was queried from.
FlattenAnimalData(animalId, location) ==
  [kind |-> "record", id |-> animalId, stateQ |-> location]

\* Data rows of a file (pd.read_csv takes the first line as the header).
DataRows(file) == IF file = <<>> THEN <<>> ELSE Tail(file)

\* --------------------------------------------------------- progress record
NoPartial == [l \in {} |-> [last_page |-> 1, animals_collected |-> 0]]

\* The fresh record of load_progress / collect_all_states(resume=False).
EmptyProgress ==
  [completed_states |-> <<>>, failed_states |-> <<>>, partial_states |-> NoPartial]


\* load_progress: the persisted record, or a fresh one when no file exists.
\* The file is modelled as a sequence holding at most one record.
load_progress(file) == IF file # <<>> THEN file[1] ELSE EmptyProgress

\* Mutant of StatesToProcess: completed states are not left out.
StatesToProcessIgnoresCompleted(progress) == US_STATES

\* Mutant of StatesToProcess: failed states are left out too.
StatesToProcessSkipsFailed(progress) ==
  SelectSeq(US_STATES, LAMBDA s : /\ ~InSeq(s, progress.completed_states)
                                  /\ ~InSeq(s, progress.failed_states))

\* Mutant of StatesToProcess: partial states are left out too.
StatesToProcessSkipsPartial(progress) ==
  SelectSeq(US_STATES, LAMBDA s : /\ ~InSeq(s, progress.completed_states)
                                  /\ s \notin DOMAIN progress.partial_states)

\* Mutant of StatesToProcess: the partial states come first.
StatesToProcessPartialFirst(progress) ==
  SelectSeq(US_STATES, LAMBDA s : /\ ~InSeq(s, progress.completed_states)
                                  /\ s \in DOMAIN progress.partial_states)
  \o SelectSeq(US_STATES, LAMBDA s : /\ ~InSeq(s, progress.completed_states)
                                     /\ s \notin DOMAIN progress.partial_states)

\* states_to_process (line 541).
StatesToProcess(progress) ==
  SelectSeq(US_STATES, LAMBDA s : ~InSeq(s, progress.completed_states))

\* Mutant of StartPageOf: the partial entry is ignored.
StartPageAlwaysOne(progress, state) == 1

\* start_page of a state (lines 554-557).
StartPageOf(progress, state) ==
  IF state \in DOMAIN progress.partial_states
  THEN progress.partial_states[state].last_page
  ELSE 1

\* Mutant of MarkCompleted: the partial entry of the state is kept.
MarkCompletedKeepsPartial(progress, state) ==
  [progress EXCEPT !.completed_states = Append(@, state),
                   !.failed_states = RemoveFirst(@, state)]

\* Mutant of MarkCompleted: the completed state is not recorded.
MarkCompletedForgets(progress, state) == progress

\* Mutant of MarkCompleted: the state stays in failed_states.
MarkCompletedKeepsFailed(progress, state) ==
  [completed_states |-> Append(progress.completed_states, state),
   failed_states    |-> progress.failed_states,
   partial_states   |-> [l \in DOMAIN progress.partial_states \ {state} |->
                           progress.partial_states[l]]]

\* The completed branch (lines 563-569).
MarkCompleted(progress, state) ==
  [completed_states |-> Append(progress.completed_states, state),
   failed_states    |-> RemoveFirst(progress.failed_states, state),
   partial_states   |-> [l \in DOMAIN progress.partial_states \ {state} |->
                           progress.partial_states[l]]]

\* The non-completed branch (lines 575-578).
MarkPartial(progress, state, result) ==
  [progress EXCEPT !.partial_states =
     [l \in DOMAIN progress.partial_states \cup {state} |->
        IF l = state
        THEN [last_page |-> result.last_page,
              animals_collected |-> result.total_animals]
        ELSE progress.partial_states[l]]]

\* Mutant of MarkFailed: the failed state is not recorded.
MarkFailedForgets(progress, state) == progress

\* Mutant of MarkFailed: the state is appended without the membership test.
MarkFailedAlways(progress, state) ==
  [progress EXCEPT !.failed_states = Append(@, state)]

\* The except branch of the state loop (lines 590-591).
MarkFailed(progress, state) ==
  IF InSeq(state, progress.failed_states) THEN progress
  ELSE [progress EXCEPT !.failed_states = Append(@, state)]

\* ------------------------------------------------ collect_state_data parts
\* total_existing_animals (lines 414-423).
CountExisting(start_page, file) ==
  IF start_page > 1 /\ file # <<>> THEN Len(DataRows(file)) ELSE 0

\* Mutant of WriteRows: the append writes a header line too.
WriteRowsHeaderOnAppend(file, start_page, rows) ==
  IF start_page = 1 \/ file = <<>>
  THEN <<Header>> \o rows
  ELSE file \o <<Header>> \o rows

\* The write of a non-empty buffer (lines 470-477 and 493-500): a new file
\* with header when start_page == 1 or the file does not exist, otherwise an
\* append without header.
WriteRows(file, start_page, rows) ==
  IF start_page = 1 \/ file = <<>>
  THEN <<Header>> \o rows
  ELSE file \o rows

\* Mutant of SaveSession: an empty buffer is written like any other.
SaveSessionUnguarded(file, start_page, all_animals) ==
  <<Header>> \o all_animals

\* `if all_animals:` around the write (lines 466 and 489).
SaveSession(file, start_page, all_animals) ==
  IF all_animals # <<>> THEN WriteRows(file, start_page, all_animals) ELSE file

\* Mutant of LastPageReached: the test is off by one.
LastPageReachedOffByOne(page, total_pages) == page > total_pages

\* The loop's exit test after a non-empty page (lines 456-459).
LastPageReached(page, total_pages) == page >= total_pages

\* The dict collect_state_data returns (lines 480-486 and 504-509).
MakeResult(completed, page, session_count, total_existing, all_animals) ==
  [completed |-> completed,
   last_page |-> page,
   animals_collected_this_session |-> session_count,
   total_animals |-> total_existing + Len(all_animals)]

NoResult == MakeResult(FALSE, 0, 0, 0, <<>>)

\* ----------------------------------------------- combine_state_files parts
\* The name the combined file has in the directory (all_<status>_<type>s.csv,
\* line 697); a per-location file (<location>_<type>s.csv, line 398) is named
\* by its location.
CombinedName == "all_"

\* The directory as a map from file names to contents, <<>> when absent.
Directory(files, combined) ==
  [n \in DOMAIN files \cup {CombinedName} |->
     IF n = CombinedName THEN combined ELSE files[n]]

\* Mutant of IsStateCsv: every CSV file of the directory is taken.
IsStateCsvTakesAll(name) == TRUE

\* The filter of the directory listing (line 664): a CSV file whose name does
\* not start with 'all_'.
IsStateCsv(name) == name # CombinedName

\* The orders os.listdir can give the files that exist (line 664).
ListdirOrders(dir) ==
  LET present == {f \in DOMAIN dir : dir[f] # <<>>}
      n == Cardinality(present)
  IN  {o \in [1..n -> present] : \A i, j \in 1..n : i # j => o[i] # o[j]}

\* A cell of the stateQ column of a DataFrame: a Python int or a Python str.
IntCell(n) == [int |-> TRUE, n |-> n, s |-> ""]

StrCell(s) == [int |-> FALSE, n |-> 0, s |-> s]

\* The fields pd.read_csv parses as integers, with the integer each gives:
\* the postcodes are written in digits only.
ParsedInt == "89009" :> 89009

Digit(d) == <<"0", "1", "2", "3", "4", "5", "6", "7", "8", "9">>[d + 1]

\* str(n) of a non-negative int.
RECURSIVE IntToText(_)
IntToText(n) ==
  IF n < 10 THEN Digit(n) ELSE IntToText(n \div 10) \o Digit(n % 10)

\* pd.read_csv (line 674): the rows of a file as a DataFrame.  The stateQ
\* column is int64 when every field of it parses as an integer, object (str)
\* otherwise.  Each row remembers the file and the line it was read from.
ReadCsv(name, file) ==
  LET rows == DataRows(file)
      int64 == \A i \in 1..Len(rows) : rows[i].stateQ \in DOMAIN ParsedInt
  IN  [i \in 1..Len(rows) |->
         [id |-> rows[i].id,
          stateQ |-> IF int64 THEN IntCell(ParsedInt[rows[i].stateQ])
                              ELSE StrCell(rows[i].stateQ),
          file |-> name,
          line |-> i]]

\* Mutant of ConcatFiles: only the first DataFrame is taken.
ConcatFilesFirstOnly(order, dir) ==
  IF order = <<>> THEN <<>> ELSE ReadCsv(Head(order), dir[Head(order)])

\* pd.concat of the files read, in the order they were read (lines 670-681).
RECURSIVE ConcatFiles(_, _)
ConcatFiles(order, dir) ==
  IF order = <<>> THEN <<>>
  ELSE ReadCsv(Head(order), dir[Head(order)]) \o ConcatFiles(Tail(order), dir)

\* Mutant of DropDuplicates: keep='last'.
RECURSIVE DropDuplicatesKeepLast(_, _)
DropDuplicatesKeepLast(rows, seen) ==
  IF rows = <<>> THEN <<>>
  ELSE IF \E i \in 2..Len(rows) : rows[i].id = Head(rows).id
       THEN DropDuplicatesKeepLast(Tail(rows), seen)
       ELSE <<Head(rows)>> \o DropDuplicatesKeepLast(Tail(rows), seen)

\* Mutant of DropDuplicates: keep=False, a duplicated id is dropped wholly.
DropDuplicatesKeepNone(rows, seen) ==
  SelectSeq(rows, LAMBDA r : Cardinality({i \in 1..Len(rows) : rows[i].id = r.id}) = 1)

\* drop_duplicates(subset=['id'], keep='first') (line 685).
RECURSIVE DropDuplicates(_, _)
DropDuplicates(rows, seen) ==
  IF rows = <<>> THEN <<>>
  ELSE IF Head(rows).id \in seen
       THEN DropDuplicates(Tail(rows), seen)
       ELSE <<Head(rows)>> \o DropDuplicates(Tail(rows), seen \cup {Head(rows).id})

\* Mutant of AsTypeStr: the column is left as it was read.
AsTypeStrSkipped(cell) == cell

\* astype(str) of a cell (line 689).
AsTypeStr(cell) == IF cell.int THEN StrCell(IntToText(cell.n)) ELSE cell

\* isin(NV_POSTCODES) of a cell (line 690): a list of str holds no int.
IsinNvPostcodes(cell) == ~cell.int /\ InSeq(cell.s, NV_POSTCODES)

\* stateQ_grouped of a cell (line 690).
StateQGrouped(cell) == IF IsinNvPostcodes(cell) THEN StrCell("NV") ELSE cell

\* The text to_csv writes for a cell (line 698).
ToCsvField(cell) == IF cell.int THEN IntToText(cell.n) ELSE cell.s

\* The DataFrame after lines 689-690, as the rows to_csv writes.
AddGrouped(rows) ==
  [i \in 1..Len(rows) |->
     LET stateQ == AsTypeStr(rows[i].stateQ)
     IN  [kind |-> "record", id |-> rows[i].id,
          stateQ |-> ToCsvField(stateQ),
          stateQ_grouped |-> ToCsvField(StateQGrouped(stateQ))]]

CombinedHeader ==
  [kind |-> "header", id |-> 0, stateQ |-> "stateQ", stateQ_grouped |-> "stateQ_grouped"]

\* The DataFrame after drop_duplicates (lines 681-685).
CombinedFrame(order, dir) == DropDuplicates(ConcatFiles(order, dir), {})

\* The combined CSV written from the files read in `order` (lines 681-698).
CombinedOf(order, dir) == <<CombinedHeader>> \o AddGrouped(CombinedFrame(order, dir))

\* Mutant of NothingToCombine: `if all_dfs:` is missing.
NothingToCombineUnguarded(dir_exists, csv_files, read) ==
  ~dir_exists \/ csv_files = <<>>

\* The three ways combine_state_files ends without writing (lines 660-662,
\* 666-668, 702-703).
NothingToCombine(dir_exists, csv_files, read) ==
  ~dir_exists \/ csv_files = <<>> \/ read = <<>>

\* What is known of a combine_state_files call: nothing before the first.
NoMerge ==
  [called |-> FALSE, dir |-> FALSE, listing |-> <<>>, read |-> <<>>,
   kept |-> <<>>, returned |-> "none", before |-> <<>>]

\* ------------------------------------------------------------------ state
\* ----------------------------------------------------------- color_classifier
\* A Python str is modelled as the list of its tokens: the words, the blank
\* between two words and the separator '|'.  `x in s` for a one-word x is
\* membership of the token list.
Blank == " "
Bar == "|"

\* The string of the given words with one blank between two of them.
RECURSIVE Words(_)
Words(ws) ==
  IF Len(ws) <= 1 THEN ws ELSE <<Head(ws), Blank>> \o Words(Tail(ws))

\* Colour names of Petfinder's taxonomy.
Black == <<"Black">>
White == <<"White">>
Calico == <<"Calico">>
Dilute == <<"Dilute">>
Tortoiseshell == <<"Tortoiseshell">>
Torbie == <<"Torbie">>
Smoke == <<"Smoke">>
Unknown == <<"Unknown">>
Tuxedo == Words(<<"Black", "&", "White", "/", "Tuxedo">>)
SealPoint == Words(<<"Seal", "Point">>)
TabbyBrown == Words(<<"Tabby", "(Brown", "/", "Chocolate)">>)
OrangeRed == Words(<<"Orange", "/", "Red">>)
DiluteCalico == Words(<<"Dilute", "Calico">>)
DiluteTortoiseshell == Words(<<"Dilute", "Tortoiseshell">>)

\* needle in s, for a str s and a one-word needle, or a list s and an item.
Contains(needle, s) == \E i \in 1..Len(s) : s[i] = needle

\* s.strip()
RECURSIVE LStrip(_)
LStrip(s) == IF s # <<>> /\ Head(s) = Blank THEN LStrip(Tail(s)) ELSE s

RECURSIVE RStrip(_)
RStrip(s) ==
  IF s # <<>> /\ s[Len(s)] = Blank THEN RStrip(SubSeq(s, 1, Len(s) - 1)) ELSE s

Strip(s) == RStrip(LStrip(s))

\* s.split('|')
RECURSIVE Split(_)
Split(s) ==
  IF ~Contains(Bar, s)
  THEN <<s>>
  ELSE LET i == CHOOSE k \in 1..Len(s) :
                   s[k] = Bar /\ \A j \in 1..(k - 1) : s[j] # Bar
       IN  <<SubSeq(s, 1, i - 1)>> \o Split(SubSeq(s, i + 1, Len(s)))

\* PATTERN_OVERRIDE_REGEX.match(color) (line 85): the colour begins with one
\* of the four words, and the word ends there.
PATTERN_OVERRIDE_REGEX(color) ==
  color # <<>> /\ Head(color) \in {"Tabby", "Calico", "Tortoiseshell", "Torbie"}

\* SOLID_TO_WHITE_MAPPING (lines 123-130), in the order of the dict.
SOLID_TO_WHITE_MAPPING ==
  << <<Words(<<"Gray", "/", "Blue", "/", "Silver">>), Words(<<"Gray", "&", "White">>)>>,
     <<Words(<<"Blue", "Cream">>),                    Words(<<"Gray", "&", "White">>)>>,
     <<OrangeRed,                                     Words(<<"Orange", "&", "White">>)>>,
     <<Words(<<"Buff", "/", "Tan", "/", "Fawn">>),    Words(<<"Buff", "&", "White">>)>>,
     <<Words(<<"Cream", "/", "Ivory">>),              Words(<<"Buff", "&", "White">>)>>,
     <<Words(<<"Brown", "/", "Chocolate">>),          Words(<<"Brown", "&", "White">>)>> >>

\* A Python value: its type and, for a str, its tokens, for a list of
\* one-word strings, its items.
PyNone == [type |-> "NoneType", value |-> <<>>]
PyInt == [type |-> "int", value |-> <<>>]
PyNaN == [type |-> "float", value |-> <<>>]
PyStr(tokens) == [type |-> "str", value |-> tokens]
PyList(items) == [type |-> "list", value |-> items]

\* How a call ends.
Returns(v) == [ended |-> "return", value |-> v]
Raises(e) == [ended |-> e, value |-> <<>>]
NotCalled == [ended |-> "pending", value |-> <<>>]

\* The rules of color_classifier for a str with a '|' (lines 62-147).
ClassifyCombination(color_combination) ==
  LET parts     == Split(color_combination)
      colors    == [i \in 1..Len(parts) |-> Strip(parts[i])]
      color_set == Range(colors)
      HasPoint(color)   == Contains("Point", color)
      IsTabby(color)    == color # <<>> /\ Head(color) = "Tabby"
      IsSolid(pair)     == pair[1] \in color_set
      points      == SelectSeq(colors, HasPoint)
      overrides   == SelectSeq(colors, PATTERN_OVERRIDE_REGEX)
      tabby_types == SelectSeq(colors, IsTabby)
      solids      == SelectSeq(SOLID_TO_WHITE_MAPPING, IsSolid)
  IN  IF colors = <<>> THEN Unknown
      ELSE IF points # <<>> THEN Head(points)
      ELSE IF Tuxedo \in color_set THEN Tuxedo
      ELSE IF Black \in color_set /\ White \in color_set
        THEN IF overrides # <<>> THEN Head(overrides) ELSE Tuxedo
      ELSE IF Contains("Calico", color_combination)
        THEN IF Contains("Dilute", color_combination) THEN DiluteCalico ELSE Calico
      ELSE IF Contains("Tortoiseshell", color_combination)
        THEN IF Contains("Dilute", color_combination)
             THEN DiluteTortoiseshell ELSE Tortoiseshell
      ELSE IF \/ Contains(Torbie, colors)
              \/ /\ Contains("Tortoiseshell", color_combination)
                 /\ Contains("Tabby", color_combination)
        THEN Torbie
      ELSE IF tabby_types # <<>> THEN Head(tabby_types)
      ELSE IF Contains(Smoke, colors) THEN Smoke
      ELSE IF Contains("White", color_combination) /\ solids # <<>>
        THEN Head(solids)[2]
      ELSE IF Len(colors) >= 2 /\ colors[1] = Black THEN colors[2]
      ELSE colors[1]

\* color_classifier (lines 8-147).  `'|' not in color_combination` (line 54)
\* raises TypeError for a value that is no container; a list without the
\* item '|' has no strip(); the validation of line 58 comes after both.
color_classifier(color_combination) ==
  IF color_combination.type \notin {"str", "list"}
  THEN Raises("TypeError")
  ELSE IF ~Contains(Bar, color_combination.value)
  THEN IF color_combination.type = "str"
       THEN Returns(Strip(color_combination.value))
       ELSE Raises("AttributeError")
  ELSE IF color_combination.value = <<>> \/ color_combination.type # "str"
  THEN Returns(Unknown)
  ELSE Returns(ClassifyCombination(color_combination.value))

VARIABLES
  \* the API
  totalPages,      \* location -> pagination.total_pages the API reports for it
  \* disk
  progressFile,    \* progress_<status>.json: <<>> or <<record>>
  csvFiles,        \* location -> rows of <location>_<type>s.csv, <<>> when absent
  combinedFile,    \* rows of all_<status>_<type>s.csv, <<>> when absent
  dirExists,       \* the directory <type>/<date>/<status> exists
  \* the running process
  pc,              \* where the process stands
  entry,           \* "main" or "api" (collect_all_states called directly)
  resume,          \* the resume argument of collect_all_states
  progress,        \* collect_all_states: progress
  todo,            \* collect_all_states: states_to_process not yet visited
  state,           \* collect_all_states: the loop variable
  start_page,      \* collect_state_data: start_page
  page,            \* collect_state_data: page
  all_animals,     \* collect_state_data: all_animals
  session_count,   \* collect_state_data: animals_collected_this_session
  total_existing,  \* collect_state_data: total_existing_animals
  loop_exit,       \* how the page loop ended: "none", "break" or "except"
  error,           \* what the page loop's except clause caught: "none",
                   \* "request" (_make_request raised) or "body" (response.json())
  result,          \* what collect_state_data returned
  outcome,         \* how collect_all_states ended
  \* observation of the current run
  runs,            \* processes started so far
  killedAfterFlush, \* the location whose resumed session had written its rows
                   \* when the process before this one was killed, else "none"
  requests,        \* <<location, page>> of every page request of this run
  calls,           \* <<location, start_page>> of every collect_state_data call
  fileAtCall,      \* the location's file when collect_state_data was called
  loadedProgress,  \* the record the run loaded from disk at its start
  merge,           \* the most recent combine_state_files call (see NoMerge)
  \* the client and its current _make_request call
  access_token,    \* self.access_token: the tokens are numbered as issued
  token_expires_at, \* self.token_expires_at
  now,             \* time.time(), in seconds
  xpc,             \* "idle", "attempt", "returned" or "raised"
  attempt,         \* the loop variable of `for attempt in range(3)`
  headers,         \* the token in the Authorization header of the call
  gets,            \* the GETs of the call: status answered and token sent
  sleeps,          \* the durations the call has slept, in order
  auths,           \* the _authenticate calls of the call
  raised,          \* the exception the call ended with, "none" when none
  \* color_classifier
  colorArgument,   \* the argument color_classifier is called with
  colorResult      \* how the call ended: the value returned or the exception

disk == <<progressFile, csvFiles, combinedFile, dirExists>>

memory == <<pc, entry, resume, progress, todo, state, start_page, page,
            all_animals, session_count, total_existing, loop_exit, error, result,
            outcome>>

observed == <<runs, killedAfterFlush, requests, calls, fileAtCall, loadedProgress>>

executor == <<access_token, token_expires_at, now, xpc, attempt, headers, gets,
              sleeps, auths, raised>>

classifier == <<colorArgument, colorResult>>

vars == <<totalPages, disk, memory, observed, merge, executor, classifier>>

\* The API's answer to a page request that succeeds: data['animals'].
ResponseAnimals(loc, p) ==
  IF p \in 1..totalPages[loc] THEN <<AnimalId(loc, p)>> ELSE <<>>

\* No row stands twice in the file.
NoRowTwice(file) ==
  \A i, j \in 1..Len(file) : i # j => file[i] # file[j]

\* A session resumed past page 1 has written its rows (lines 488-500 or
\* 466-477) and save_progress (line 582 or 586) has not run yet; the file
\* holds no row twice.
KilledAfterFlush ==
  /\ pc = "handle_result"
  /\ start_page > 1
  /\ all_animals # <<>>
  /\ NoRowTwice(csvFiles[state])

\* No process is running.
Terminal ==
  \/ pc \in {"idle", "exit", "crashed", "killed"}
  \/ pc = "returned" /\ entry = "api"

\* The locals of a process that has not started anything yet.
FreshMemory(e, r, at) ==
  /\ pc' = at
  /\ entry' = e
  /\ resume' = r
  /\ progress' = EmptyProgress
  /\ todo' = <<>>
  /\ state' = ""
  /\ start_page' = 1
  /\ page' = 1
  /\ all_animals' = <<>>
  /\ session_count' = 0
  /\ total_existing' = 0
  /\ loop_exit' = "none"
  /\ error' = "none"
  /\ result' = NoResult
  /\ outcome' = "none"
  /\ requests' = <<>>
  /\ calls' = <<>>
  /\ fileAtCall' = <<>>
  /\ loadedProgress' = EmptyProgress
  /\ merge' = NoMerge

\* The page counts the API reports: every location has every count from 0 to
\* MaxPages in one of the profiles.
PageProfiles ==
  {[l \in Locations |-> (IndexOf(l) + k) % (MaxPages + 1)] : k \in 0..MaxPages}

\* No file has been written yet.
InitDisk ==
  /\ progressFile = <<>>
  /\ csvFiles = [l \in Locations |-> <<>>]
  /\ combinedFile = <<>>
  /\ dirExists = FALSE

\* No process has been started yet.
InitProcess ==
  /\ pc = "idle"
  /\ entry = "api"
  /\ resume = TRUE
  /\ progress = EmptyProgress
  /\ todo = <<>>
  /\ state = ""
  /\ start_page = 1
  /\ page = 1
  /\ all_animals = <<>>
  /\ session_count = 0
  /\ total_existing = 0
  /\ loop_exit = "none"
  /\ error = "none"
  /\ result = NoResult
  /\ outcome = "none"
  /\ runs = 0
  /\ killedAfterFlush = "none"
  /\ requests = <<>>
  /\ calls = <<>>
  /\ fileAtCall = <<>>
  /\ loadedProgress = EmptyProgress
  /\ merge = NoMerge

\* expires_in of a token response (line 135: 3600 when the field is absent).
ExpiresIn == 3600

\* The client after __init__ (lines 105-111): it has authenticated once.
InitClient ==
  /\ access_token = 1
  /\ now = 0
  /\ token_expires_at = ExpiresIn
  /\ xpc = "idle"
  /\ attempt = 0
  /\ headers = 0
  /\ gets = <<>>
  /\ sleeps = <<>>
  /\ auths = <<>>
  /\ raised = "none"

\* color_classifier has not been called.
InitClassifier ==
  /\ colorArgument = PyNone
  /\ colorResult = NotCalled

Init ==
  /\ totalPages \in PageProfiles
  /\ InitDisk
  /\ InitProcess
  /\ InitClient
  /\ InitClassifier

\* ----------------------------------------------------------------- actions
\* The script is run: main() (lines 729-742) up to the status summary.
RunMain ==
  /\ Terminal
  /\ runs < MaxRuns
  /\ runs' = runs + 1
  /\ killedAfterFlush' = IF pc = "killed" THEN killedAfterFlush ELSE "none"
  /\ FreshMemory("main", TRUE, "summary")
  /\ UNCHANGED <<classifier, executor, totalPages, disk>>

\* collect_all_states(animal_type, status, resume=r) is called on a client.
CallCollectAllStates(r) ==
  /\ Terminal
  /\ runs < MaxRuns
  /\ runs' = runs + 1
  /\ killedAfterFlush' = IF r /\ pc = "killed" THEN killedAfterFlush ELSE "none"
  /\ FreshMemory("api", r, "collect")
  /\ UNCHANGED <<classifier, executor, totalPages, disk>>

\* `logger(...)` at line 628: the Logger object is not callable, so the
\* summary raises TypeError exactly when partial_states is not empty.
SummaryRaises(p) == DOMAIN p.partial_states # {}

\* get_status_summary (lines 614-633), called by main outside its try block
\* (line 742): an exception it raises ends main.
GetStatusSummary ==
  /\ pc = "summary"
  /\ pc' = IF SummaryRaises(load_progress(progressFile)) THEN "crashed" ELSE "collect"
  /\ UNCHANGED <<classifier, executor, merge, totalPages, disk, observed, entry, resume,
                 progress, todo, state, start_page, page, all_animals,
                 session_count, total_existing, loop_exit, error, result, outcome>>

\* Mutant of CollectAllStatesBegin: the progress file is loaded also when
\* resume is false.
CollectAllStatesBeginAlwaysLoads ==
  /\ pc = "collect"
  /\ progress' = load_progress(progressFile)
  /\ loadedProgress' = progress'
  /\ todo' = StatesToProcess(progress')
  /\ IF todo' = <<>>
     THEN pc' = "returned" /\ outcome' = "nothing_pending"
     ELSE pc' = "next_state" /\ outcome' = "none"
  /\ UNCHANGED <<classifier, executor, merge, totalPages, disk, entry, resume, state,
                 start_page, page, all_animals, session_count, total_existing,
                 loop_exit, error, result, runs, killedAfterFlush, requests, calls, fileAtCall>>

\* collect_all_states up to its state loop (lines 534-549).
CollectAllStatesBegin ==
  /\ pc = "collect"
  /\ progress' = IF resume THEN load_progress(progressFile) ELSE EmptyProgress
  /\ loadedProgress' = progress'
  /\ todo' = StatesToProcess(progress')
  /\ IF todo' = <<>>
     THEN pc' = "returned" /\ outcome' = "nothing_pending"
     ELSE pc' = "next_state" /\ outcome' = "none"
  /\ UNCHANGED <<classifier, executor, merge, totalPages, disk, entry, resume, state,
                 start_page, page, all_animals, session_count, total_existing,
                 loop_exit, error, result, runs, killedAfterFlush, requests, calls, fileAtCall>>

\* One turn of the state loop begins (lines 551-559) and collect_state_data
\* runs up to its page loop (lines 395-426).
BeginState ==
  /\ pc = "next_state"
  /\ todo # <<>>
  /\ LET s == Head(todo)
         sp == StartPageOf(progress, s)
     IN  /\ state' = s
         /\ todo' = Tail(todo)
         /\ start_page' = sp
         /\ page' = sp
         /\ total_existing' = CountExisting(sp, csvFiles[s])
         /\ calls' = Append(calls, <<s, sp>>)
         /\ fileAtCall' = csvFiles[s]
  /\ dirExists' = TRUE
  /\ all_animals' = <<>>
  /\ session_count' = 0
  /\ loop_exit' = "none"
  /\ error' = "none"
  /\ result' = NoResult
  /\ pc' = "request"
  /\ UNCHANGED <<classifier, executor, merge, totalPages, progressFile, csvFiles, combinedFile,
                 entry, resume, progress, outcome, runs, killedAfterFlush, requests, loadedProgress>>

\* An exception escapes collect_state_data before its page loop
\* (create_directory_structure, line 397); the except branch of the state
\* loop records the state as failed, saves and continues (lines 588-593).
BeginStateRaises ==
  /\ pc = "next_state"
  /\ todo # <<>>
  /\ LET s == Head(todo)
         sp == StartPageOf(progress, s)
     IN  /\ state' = s
         /\ todo' = Tail(todo)
         /\ start_page' = sp
         /\ calls' = Append(calls, <<s, sp>>)
         /\ fileAtCall' = csvFiles[s]
         /\ progress' = MarkFailed(progress, s)
  /\ progressFile' = <<progress'>>
  /\ result' = NoResult
  /\ loop_exit' = "none"
  /\ error' = "none"
  /\ pc' = "next_state"
  /\ UNCHANGED <<classifier, executor, merge, totalPages, csvFiles, combinedFile, dirExists,
                 entry, resume, page, all_animals, session_count, total_existing,
                 outcome, runs, killedAfterFlush, requests, loadedProgress>>

\* _make_request returns a response and the page is processed (lines 429-459).
RequestPageOk ==
  /\ pc = "request"
  /\ requests' = Append(requests, <<state, page>>)
  /\ LET animals == ResponseAnimals(state, page)
         page_animals == [i \in 1..Len(animals) |->
                            FlattenAnimalData(animals[i], state)]
     IN  IF animals = <<>>
         THEN /\ loop_exit' = "break"
              /\ pc' = "flush"
              /\ UNCHANGED <<all_animals, session_count, page>>
         ELSE /\ all_animals' = all_animals \o page_animals
              /\ session_count' = session_count + Len(page_animals)
              /\ IF LastPageReached(page, totalPages[state])
                 THEN loop_exit' = "break" /\ pc' = "flush" /\ page' = page
                 ELSE loop_exit' = "none" /\ pc' = "request" /\ page' = page + 1
  /\ UNCHANGED <<classifier, executor, merge, totalPages, disk, entry, resume, progress, todo,
                 state, start_page, total_existing, error, result, outcome, runs, killedAfterFlush,
                 calls, fileAtCall, loadedProgress>>

\* The rows of the page being processed (lines 441-444).
PageAnimals ==
  LET animals == ResponseAnimals(state, page)
  IN  [i \in 1..Len(animals) |-> FlattenAnimalData(animals[i], state)]

\* The except branch of the page loop is entered (line 461) with an
\* exception of the given kind, raised when the rows `extended` of the page
\* have been added to the buffer (line 446).
PageLoopExcept(kind, extended) ==
  /\ requests' = Append(requests, <<state, page>>)
  /\ all_animals' = all_animals \o extended
  /\ session_count' = session_count + Len(extended)
  /\ loop_exit' = "except"
  /\ error' = kind
  /\ pc' = "flush"
  /\ UNCHANGED <<classifier, executor, merge, totalPages, disk, entry, resume, progress, todo,
                 state, start_page, page, total_existing, result, outcome, runs, killedAfterFlush,
                 calls, fileAtCall, loadedProgress>>

\* _make_request raises after its retries (line 432).
RequestPageRaises ==
  /\ pc = "request"
  /\ PageLoopExcept("request", <<>>)

\* _make_request returns a response whose body is not JSON: response.json()
\* raises (line 433).
ResponseBodyMalformed ==
  /\ pc = "request"
  /\ PageLoopExcept("body", <<>>)

\* The body is JSON with animals, and _flatten_animal_data raises on one of
\* them (line 443; e.g. `contact` is null, line 218): the page's rows are
\* not yet in the buffer.
FlattenRaises ==
  /\ pc = "request"
  /\ ResponseAnimals(state, page) # <<>>
  /\ PageLoopExcept("flatten", <<>>)

\* The body is JSON with animals, and reading the pagination raises (lines
\* 449-456; e.g. `pagination` is null, or total_pages is no number): the
\* page's rows are in the buffer already (line 446).
PaginationMalformed ==
  /\ pc = "request"
  /\ ResponseAnimals(state, page) # <<>>
  /\ PageLoopExcept("pagination", PageAnimals)

\* The session buffer is written and collect_state_data returns
\* (lines 462-486 after an exception, lines 488-509 after the loop).
Flush ==
  /\ pc = "flush"
  /\ csvFiles' = [csvFiles EXCEPT ![state] = SaveSession(@, start_page, all_animals)]
  /\ result' = MakeResult(loop_exit = "break", page, session_count,
                          total_existing, all_animals)
  /\ pc' = "handle_result"
  /\ UNCHANGED <<classifier, executor, merge, totalPages, progressFile, combinedFile, dirExists,
                 entry, resume, progress, todo, state, start_page, page,
                 all_animals, session_count, total_existing, loop_exit, error,
                 outcome, observed>>

\* The state loop handles a completed result and saves (lines 561-572, 586).
HandleCompleted ==
  /\ pc = "handle_result"
  /\ result.completed
  /\ progress' = MarkCompleted(progress, state)
  /\ progressFile' = <<progress'>>
  /\ pc' = "next_state"
  /\ UNCHANGED <<classifier, executor, merge, totalPages, csvFiles, combinedFile, dirExists,
                 entry, resume, todo, state, start_page, page, all_animals,
                 session_count, total_existing, loop_exit, error, result, outcome,
                 observed>>

\* Mutant of HandlePartial: the `return` of line 584 is missing, the loop
\* goes on with the next state.
HandlePartialContinues ==
  /\ pc = "handle_result"
  /\ ~result.completed
  /\ progress' = MarkPartial(progress, state, result)
  /\ progressFile' = <<progress'>>
  /\ pc' = "next_state"
  /\ UNCHANGED <<classifier, executor, merge, totalPages, csvFiles, combinedFile, dirExists,
                 entry, resume, todo, state, start_page, page, all_animals,
                 session_count, total_existing, loop_exit, error, result, outcome,
                 observed>>

\* The state loop handles a non-completed result: it records the partial
\* entry, saves and returns (lines 573-584).
HandlePartial ==
  /\ pc = "handle_result"
  /\ ~result.completed
  /\ progress' = MarkPartial(progress, state, result)
  /\ progressFile' = <<progress'>>
  /\ outcome' = "early_stop"
  /\ pc' = "returned"
  /\ UNCHANGED <<classifier, executor, merge, totalPages, csvFiles, combinedFile, dirExists,
                 entry, resume, todo, state, start_page, page, all_animals,
                 session_count, total_existing, loop_exit, error, result, observed>>

\* The state loop has visited every pending state (lines 595-597).
LoopFinished ==
  /\ pc = "next_state"
  /\ todo = <<>>
  /\ outcome' = "loop_finished"
  /\ pc' = "returned"
  /\ UNCHANGED <<classifier, executor, merge, totalPages, disk, observed, entry, resume,
                 progress, todo, state, start_page, page, all_animals,
                 session_count, total_existing, loop_exit, error, result>>

\* csv_files (line 664) for one listing of the directory.
CsvFiles(listing) == IF dirExists THEN SelectSeq(listing, IsStateCsv) ELSE <<>>

\* The body of combine_state_files (lines 655-703) for one listing of the
\* directory and one set of files pd.read_csv fails on: the combined file
\* and what is known of the call afterwards.
Combine(listing, unreadable) ==
  LET dir == Directory(csvFiles, combinedFile)
      csv_files == CsvFiles(listing)
      read == SelectSeq(csv_files, LAMBDA f : f \notin unreadable)
      frame == CombinedFrame(read, dir)
  IN  IF NothingToCombine(dirExists, csv_files, read)
      THEN /\ combinedFile' = combinedFile
           /\ merge' = [called |-> TRUE, dir |-> dirExists, listing |-> csv_files,
                        read |-> read, kept |-> <<>>, returned |-> "None",
                        before |-> combinedFile]
      ELSE /\ combinedFile' = CombinedOf(read, dir)
           /\ merge' = [called |-> TRUE, dir |-> dirExists, listing |-> csv_files,
                        read |-> read,
                        kept |-> [i \in 1..Len(frame) |->
                                    <<frame[i].file, frame[i].line>>],
                        returned |-> "path",
                        before |-> combinedFile]

\* main calls combine_state_files after collect_all_states returned
\* (line 747; lines 655-703).  The files the script has written are read
\* back without fault; read faults are drawn in CallCombineStateFiles.
CombineStateFiles ==
  /\ pc = "returned"
  /\ entry = "main"
  /\ \E listing \in ListdirOrders(Directory(csvFiles, combinedFile)) :
       Combine(listing, {})
  /\ pc' = "exit"
  /\ UNCHANGED <<classifier, executor, totalPages, progressFile, csvFiles, dirExists, observed,
                 entry, resume, progress, todo, state, start_page, page,
                 all_animals, session_count, total_existing, loop_exit, error,
                 result, outcome>>

\* combine_state_files is called on a client while no collection is running.
CallCombineStateFiles ==
  /\ Terminal
  /\ \E listing \in ListdirOrders(Directory(csvFiles, combinedFile)) :
       \E unreadable \in SUBSET Range(CsvFiles(listing)) :
         Combine(listing, unreadable)
  /\ UNCHANGED <<classifier, executor, totalPages, progressFile, csvFiles, dirExists, observed,
                 memory>>

\* The process is killed: its memory is lost, the disk stays as it is.
Kill ==
  /\ ~Terminal
  /\ killedAfterFlush' = IF KilledAfterFlush THEN state ELSE "none"
  /\ FreshMemory("api", TRUE, "killed")
  /\ UNCHANGED <<classifier, executor, totalPages, disk, runs>>

\* The orchestrator, called on a client any number of times, killed at any
\* point.
Next ==
  \/ \E r \in BOOLEAN : CallCollectAllStates(r)
  \/ CollectAllStatesBegin
  \/ BeginState
  \/ BeginStateRaises
  \/ RequestPageOk
  \/ RequestPageRaises
  \/ ResponseBodyMalformed
  \/ FlattenRaises
  \/ PaginationMalformed
  \/ Flush
  \/ HandleCompleted
  \/ HandlePartial
  \/ LoopFinished
  \/ Kill

Spec == Init /\ [][Next]_vars

\* The invocation that is starting, or running, is not the last one: the
\* API can still fail and the process can still be killed.
MayFail == runs < MaxRuns

\* The orchestrator called MaxRuns times, where from the last call on every
\* request succeeds and nothing else fails, and the last call has
\* resume=True.
NextHealthy ==
  \/ \E r \in BOOLEAN : (runs + 1 < MaxRuns \/ r) /\ CallCollectAllStates(r)
  \/ CollectAllStatesBegin
  \/ BeginState
  \/ MayFail /\ BeginStateRaises
  \/ RequestPageOk
  \/ MayFail /\ RequestPageRaises
  \/ MayFail /\ ResponseBodyMalformed
  \/ MayFail /\ FlattenRaises
  \/ MayFail /\ PaginationMalformed
  \/ Flush
  \/ HandleCompleted
  \/ HandlePartial
  \/ LoopFinished
  \/ MayFail /\ Kill

\* A started process runs on until it returns or is killed, and the caller
\* makes every one of its MaxRuns calls: weak fairness of the steps.
SpecHealthy == Init /\ [][NextHealthy]_vars /\ WF_vars(NextHealthy)

\* The same, and the script run through main(): status summary, collection,
\* combined file.
NextMain ==
  \/ RunMain
  \/ GetStatusSummary
  \/ CombineStateFiles
  \/ \E r \in BOOLEAN : CallCollectAllStates(r)
  \/ CollectAllStatesBegin
  \/ BeginState
  \/ BeginStateRaises
  \/ RequestPageOk
  \/ RequestPageRaises
  \/ ResponseBodyMalformed
  \/ FlattenRaises
  \/ PaginationMalformed
  \/ Flush
  \/ HandleCompleted
  \/ HandlePartial
  \/ LoopFinished
  \/ Kill

SpecMain == Init /\ [][NextMain]_vars

\* The script alone: every process is a run of main().
NextScript ==
  \/ RunMain
  \/ GetStatusSummary
  \/ CollectAllStatesBegin
  \/ BeginState
  \/ BeginStateRaises
  \/ RequestPageOk
  \/ RequestPageRaises
  \/ ResponseBodyMalformed
  \/ FlattenRaises
  \/ PaginationMalformed
  \/ Flush
  \/ HandleCompleted
  \/ HandlePartial
  \/ LoopFinished
  \/ CombineStateFiles
  \/ Kill

SpecScript == Init /\ [][NextScript]_vars

\* ---------------------------------------- combine_state_files on its own
\* Most data rows a per-location file of SampleFiles holds.
MaxFileRows == 2

\* The ids the animals of SampleFiles have.
SampleIds == 1..2

\* The contents a per-location file can have: absent, or the header and up
\* to MaxFileRows rows of the location, the same animal possibly twice.
SampleFile(loc) ==
  {<<>>} \cup
  UNION {{<<Header>> \o [i \in 1..n |-> FlattenAnimalData(ids[i], loc)] :
            ids \in [1..n -> SampleIds]} : n \in 1..MaxFileRows}

\* The locations the sample directory can hold a file of: a postcode and a
\* two-letter code.
SampleLocations == {NV_POSTCODES[1], DEFAULT_US_STATES[1]}

\* A directory as collection runs can leave it, no process running.
InitCombine ==
  /\ totalPages = [l \in Locations |-> 0]
  /\ progressFile = <<>>
  /\ csvFiles \in [Locations -> UNION {SampleFile(l) : l \in Locations}]
  /\ \A l \in Locations :
       csvFiles[l] \in IF l \in SampleLocations THEN SampleFile(l) ELSE {<<>>}
  /\ combinedFile = <<>>
  /\ dirExists \in BOOLEAN
  /\ dirExists \/ \A l \in Locations : csvFiles[l] = <<>>
  /\ InitProcess
  /\ InitClient
  /\ InitClassifier

NextCombine == CallCombineStateFiles

\* combine_state_files called any number of times on a directory that does
\* not change otherwise.
SpecCombine == InitCombine /\ [][NextCombine]_vars

\* ------------------------------------------------------------ _make_request
\* How a call of _authenticate ends (lines 130-135): the token is stored, or
\* raise_for_status raises because the token endpoint rejected the
\* credentials, or token_data['access_token'] raises KeyError.
AuthOutcomes == {"ok", "rejected", "no_token"}

\* The exception a failed _authenticate raises.
AuthError(auth) == IF auth = "rejected" THEN "HTTPError(token)" ELSE "KeyError"

AuthErrors == {AuthError(a) : a \in AuthOutcomes \ {"ok"}}

\* Mutant of TokenNearExpiry: the margin itself counts as near.
TokenNearExpiryAtMargin(t, expires_at) == t >= expires_at - 300

\* The test of line 157.
TokenNearExpiry(t, expires_at) == t > expires_at - 300

\* The statuses the API answers a GET with; 204 stands for the statuses
\* below 400 other than 200, 500 for those from 400 on other than 401 and
\* 429.
Statuses == {200, 204, 401, 429, 500}

\* response.raise_for_status() raises (line 186).
RaiseForStatusRaises(status) == status >= 400

\* Mutant of AttemptsLeft: range(4).
AttemptsLeftOneMore(a) == a + 1 < 4

\* `for attempt in range(3)` has another turn after turn a (line 163).
AttemptsLeft(a) == a + 1 < 3

\* wait_time of line 172.
RateLimitWait(a) == 10 * (a + 1)

\* The sleep of lines 185 and 191.
RetryWait(a) == 5 * (a + 1)

\* The remaining lifetimes of the token a call can begin with: a full
\* lifetime, those around the refresh margin and one past the expiry, as far
\* as the time that has passed allows.
Remaining ==
  {r \in {ExpiresIn, 301, 300, 299, -1} : r <= token_expires_at - now}

\* _make_request is called (lines 156-161).  Times are counted from the
\* begin of the call and tokens from the one the client holds then; the
\* token has r seconds left.  When it is near its expiry _authenticate is
\* called, outside the try block: an exception of it ends the call.
MakeRequestBegin(r, auth) ==
  /\ xpc \in {"idle", "returned", "raised"}
  /\ now' = 0
  /\ attempt' = 0
  /\ gets' = <<>>
  /\ sleeps' = <<>>
  /\ IF TokenNearExpiry(0, r)
     THEN /\ auths' = <<[cause |-> "refresh", ok |-> auth = "ok", gets |-> 0,
                         left |-> r]>>
          /\ IF auth = "ok"
             THEN /\ access_token' = 2
                  /\ token_expires_at' = ExpiresIn
                  /\ headers' = 2
                  /\ xpc' = "attempt"
                  /\ raised' = "none"
             ELSE /\ access_token' = 1
                  /\ token_expires_at' = r
                  /\ headers' = 0
                  /\ xpc' = "raised"
                  /\ raised' = AuthError(auth)
     ELSE /\ auth = "ok"
          /\ auths' = <<>>
          /\ access_token' = 1
          /\ token_expires_at' = r
          /\ headers' = 1
          /\ xpc' = "attempt"
          /\ raised' = "none"
  /\ UNCHANGED <<totalPages, disk, memory, observed, merge, classifier>>

\* `continue`, or the end of a turn of the loop: the next turn, or line 194
\* after the last.
NextTurn ==
  /\ attempt' = attempt + 1
  /\ IF AttemptsLeft(attempt)
     THEN xpc' = "attempt" /\ raised' = "none"
     ELSE xpc' = "raised" /\ raised' = "All retry attempts failed"

\* The except clause (lines 188-192) has caught exception e in turn
\* `attempt`, after the call has slept what `slept` lists.
Except(e, slept) ==
  IF attempt < 2
  THEN /\ sleeps' = sleeps \o slept \o <<RetryWait(attempt)>>
       /\ now' = now + 2 + RetryWait(attempt)
       /\ NextTurn
  ELSE /\ sleeps' = sleeps \o slept
       /\ now' = now + 2
       /\ attempt' = attempt
       /\ xpc' = "raised"
       /\ raised' = e

\* The sleep of line 165 and the GET of line 167, answered with `status`
\* (0 when session.get raised).  The GET is recorded with the token its
\* header carries, the token the client holds then, and the place its sleep
\* of line 165 has among the sleeps of the call.
Get(status) ==
  /\ xpc = "attempt"
  /\ gets' = Append(gets, [status |-> status, token |-> headers, turn |-> attempt,
                           held |-> access_token, slept |-> Len(sleeps) + 1])
  /\ headers' = headers
  /\ UNCHANGED <<totalPages, disk, memory, observed, merge, classifier>>

\* The GET is answered 200 (lines 169-170).
GetOk ==
  /\ Get(200)
  /\ sleeps' = Append(sleeps, 2)
  /\ now' = now + 2
  /\ xpc' = "returned"
  /\ UNCHANGED <<access_token, token_expires_at, attempt, auths, raised>>

\* Mutant of GetRateLimited: a 429 ends the call at once.
GetRateLimitedGivesUp ==
  /\ Get(429)
  /\ sleeps' = Append(sleeps, 2)
  /\ now' = now + 2
  /\ xpc' = "raised"
  /\ raised' = "HTTPError(429)"
  /\ UNCHANGED <<access_token, token_expires_at, attempt, auths>>

\* The GET is answered 429 (lines 171-175).
GetRateLimited ==
  /\ Get(429)
  /\ sleeps' = sleeps \o <<2, RateLimitWait(attempt)>>
  /\ now' = now + 2 + RateLimitWait(attempt)
  /\ NextTurn
  /\ UNCHANGED <<access_token, token_expires_at, auths>>

\* Mutant of GetUnauthorized: a failed _authenticate clears the credential.
GetUnauthorizedClearsToken(auth) ==
  /\ Get(401)
  /\ auths' = Append(auths, [cause |-> "401", ok |-> auth = "ok", gets |-> Len(gets'),
                             left |-> token_expires_at - (now + 2)])
  /\ IF auth = "ok"
     THEN /\ access_token' = access_token + 1
          /\ token_expires_at' = now + 2 + ExpiresIn
          /\ sleeps' = Append(sleeps, 2)
          /\ now' = now + 2
          /\ NextTurn
     ELSE /\ Except(AuthError(auth), <<2>>)
          /\ access_token' = 0
          /\ token_expires_at' = 0

\* The GET is answered 401 (lines 176-179): _authenticate is called inside
\* the try block, so an exception of it goes to the except clause.
GetUnauthorized(auth) ==
  /\ Get(401)
  /\ auths' = Append(auths, [cause |-> "401", ok |-> auth = "ok", gets |-> Len(gets'),
                             left |-> token_expires_at - (now + 2)])
  /\ IF auth = "ok"
     THEN /\ access_token' = access_token + 1
          /\ token_expires_at' = now + 2 + ExpiresIn
          /\ sleeps' = Append(sleeps, 2)
          /\ now' = now + 2
          /\ NextTurn
     ELSE /\ Except(AuthError(auth), <<2>>)
          /\ UNCHANGED <<access_token, token_expires_at>>

\* The GET is answered with another status (lines 180-186).
GetOtherStatus(status) ==
  /\ status \notin {200, 401, 429}
  /\ Get(status)
  /\ IF attempt < 2
     THEN /\ sleeps' = sleeps \o <<2, RetryWait(attempt)>>
          /\ now' = now + 2 + RetryWait(attempt)
          /\ NextTurn
     ELSE IF RaiseForStatusRaises(status)
          THEN Except("HTTPError", <<2>>)
          ELSE /\ sleeps' = Append(sleeps, 2)
               /\ now' = now + 2
               /\ NextTurn
  /\ UNCHANGED <<access_token, token_expires_at, auths>>

\* Mutant of GetFails: the GET is sent without the sleep of line 165.
GetFailsNoDelay ==
  /\ Get(0)
  /\ Except("ConnectionError", <<>>)
  /\ UNCHANGED <<access_token, token_expires_at, auths>>

\* session.get raises: no response (line 167, caught at line 188).
GetFails ==
  /\ Get(0)
  /\ Except("ConnectionError", <<2>>)
  /\ UNCHANGED <<access_token, token_expires_at, auths>>

\* A client right after construction, nothing collected.
InitRequest ==
  /\ totalPages = [l \in Locations |-> 0]
  /\ InitDisk
  /\ InitProcess
  /\ InitClient
  /\ InitClassifier

NextRequest ==
  \/ \E r \in Remaining, auth \in AuthOutcomes : MakeRequestBegin(r, auth)
  \/ GetOk
  \/ GetRateLimited
  \/ \E auth \in AuthOutcomes : GetUnauthorized(auth)
  \/ \E status \in Statuses : GetOtherStatus(status)
  \/ GetFails

\* _make_request called on a client any number of times, every GET answered
\* in any of the ways.
SpecRequest == InitRequest /\ [][NextRequest]_vars

\* ----------------------------------------------- color_classifier, applied
\* The colours the arguments are built from.
ColorNames ==
  {Black, White, Calico, Dilute, Tortoiseshell, Torbie, Smoke, Tuxedo,
   SealPoint, TabbyBrown, OrangeRed}

\* ' | '.join(colors), with `pad` blanks on either side of the separator.
RECURSIVE Join(_, _)
Join(colors, pad) ==
  IF Len(colors) = 0 THEN <<>>
  ELSE IF Len(colors) = 1 THEN colors[1]
  ELSE colors[1] \o pad \o <<Bar>> \o pad \o Join(Tail(colors), pad)

\* The lists of 1..MaxColors colours.
ColorLists == UNION {[1..n -> ColorNames] : n \in 1..MaxColors}

\* The values color_classifier is applied to: colour combinations as the
\* data preparation joins them, a few strings of other shapes, and values
\* that are no strings (None and NaN stand for a missing colour in a frame).
ColorArguments ==
  {PyStr(Join(cs, <<Blank>>)) : cs \in ColorLists}
    \cup {PyStr(Join(cs, <<>>)) : cs \in {c \in ColorLists : Len(c) = 2}}
    \cup {PyStr(<<>>), PyStr(<<Blank>>), PyStr(<<Bar>>),
          PyStr(<<Blank>> \o Black \o <<Blank>>)}
    \cup {PyNone, PyInt, PyNaN, PyList(<<"Black">>), PyList(<<Bar>>),
          PyList(<<>>)}

InitColor ==
  /\ totalPages = [l \in Locations |-> 0]
  /\ InitDisk
  /\ InitProcess
  /\ InitClient
  /\ colorArgument \in ColorArguments
  /\ colorResult = NotCalled

\* color_classifier(colorArgument)
CallColorClassifier ==
  /\ colorResult = NotCalled
  /\ colorResult' = color_classifier(colorArgument)
  /\ UNCHANGED <<totalPages, disk, memory, observed, merge, executor,
                 colorArgument>>

NextColor == CallColorClassifier

\* color_classifier applied once to any of the arguments.
SpecColor == InitColor /\ [][NextColor]_vars

\* ------------------------------------------------------------ observation
\* The pages requested for a location in the current run, in request order.
PagesRequestedFor(loc) ==
  LET rs == SelectSeq(requests, LAMBDA r : r[1] = loc)
  IN  [i \in 1..Len(rs) |-> rs[i][2]]

\* collect_state_data has returned something for the current state.
HasResult == result.last_page > 0

\* The record on disk, as load_progress would read it.
Persisted == load_progress(progressFile)

\* The row the API's page p of a location is stored as.
RowOf(loc, p) == FlattenAnimalData(AnimalId(loc, p), loc)

\* The states the current run found pending when it started its loop.
Pending == Range(StatesToProcess(loadedProgress))

\* ------------------------------------------------------------------ claims

\* C1: early stop.  Once collect_state_data has returned a non-completed
\* result for a location, the run has returned, the partial entry of that
\* location is on disk with the failing page, and neither a page request nor
\* a collect_state_data call has been made for a location later in US_STATES.
C1_EarlyStop ==
  (HasResult /\ ~result.completed /\ pc # "handle_result") =>
    /\ pc \in {"returned", "exit"}
    /\ progressFile # <<>>
    /\ state \in DOMAIN Persisted.partial_states
    /\ Persisted.partial_states[state].last_page = result.last_page
    /\ calls # <<>> /\ calls[Len(calls)][1] = state
    /\ requests # <<>> /\ requests[Len(requests)][1] = state
    /\ \A i \in 1..Len(calls) : IndexOf(calls[i][1]) <= IndexOf(state)
    /\ \A i \in 1..Len(requests) : IndexOf(requests[i][1]) <= IndexOf(state)

\* A run that stopped early while later locations were still pending.
C1_Witness ==
  /\ pc = "returned"
  /\ HasResult /\ ~result.completed
  /\ todo # <<>>

\* C2: resume start page.  For every location the run loaded as partial with
\* resume page p, the collect_state_data call of the run for it has
\* start_page = p, the first page requested for it is p, and no page below p
\* is requested for it.
C2_ResumeStartPage ==
  \A loc \in DOMAIN loadedProgress.partial_states :
    LET p == loadedProgress.partial_states[loc].last_page
        ps == PagesRequestedFor(loc)
    IN  /\ \A i \in 1..Len(calls) : calls[i][1] = loc => calls[i][2] = p
        /\ ps # <<>> => ps[1] = p
        /\ \A k \in 1..Len(ps) : ps[k] >= p

\* A resumed location whose resume page is past page 1 has been requested.
C2_Witness ==
  \E loc \in DOMAIN loadedProgress.partial_states :
    /\ loadedProgress.partial_states[loc].last_page > 1
    /\ PagesRequestedFor(loc) # <<>>

\* C3: a run of main() always gets past the status summary it prints first
\* and reaches collect_all_states, also when an earlier run left a partial
\* entry in the progress file.
C3_SummaryNeverStopsMain == pc # "crashed"

\* C4: in the persisted progress record no location is both in
\* completed_states and in partial_states.
C4_CompletedPartialDisjoint ==
  \A loc \in Locations :
    ~(InSeq(loc, Persisted.completed_states) /\ loc \in DOMAIN Persisted.partial_states)

\* A location that was partial in the loaded record has just been saved as
\* completed.
C4_Witness ==
  /\ pc = "next_state"
  /\ state \in DOMAIN loadedProgress.partial_states
  /\ InSeq(state, Persisted.completed_states)

\* C5: pagination stop.  The pages requested in a collect_state_data call are
\* start_page, start_page + 1, ... in this order, each once; when start_page
\* <= N = total_pages no page above N is requested; and a call in which no
\* request raised returns completed, having requested exactly start_page..N,
\* with last_page = N.
C5_PaginationStop ==
  (pc \in {"request", "flush", "handle_result"}) =>
    LET ps == PagesRequestedFor(state)
        N == totalPages[state]
    IN  /\ \A k \in 1..Len(ps) : ps[k] = start_page + k - 1
        /\ start_page <= N => \A k \in 1..Len(ps) : ps[k] <= N
        /\ (pc = "handle_result" /\ loop_exit = "break" /\ start_page <= N) =>
             /\ result.completed
             /\ result.last_page = N
             /\ Len(ps) = N - start_page + 1

\* A resumed call that started past page 1 has completed at the last page.
C5_Witness ==
  /\ pc = "handle_result"
  /\ loop_exit = "break"
  /\ start_page >= 2
  /\ start_page <= totalPages[state]
  /\ result.last_page = totalPages[state]

\* C6: empty first page.  A call with start_page = 1 whose page 1 comes back
\* with an empty animals list returns completed with
\* animals_collected_this_session = 0 after exactly one page request, and
\* leaves the location's file as it was.
C6_EmptyFirstPage ==
  (/\ pc = "handle_result"
   /\ start_page = 1
   /\ loop_exit = "break"
   /\ ResponseAnimals(state, 1) = <<>>) =>
    /\ result.completed
    /\ result.animals_collected_this_session = 0
    /\ PagesRequestedFor(state) = <<1>>
    /\ csvFiles[state] = fileAtCall

C6_Witness ==
  /\ pc = "handle_result"
  /\ start_page = 1
  /\ loop_exit = "break"
  /\ ResponseAnimals(state, 1) = <<>>
  /\ fileAtCall = <<>>

\* C7: storage is never truncated.  When collect_state_data returns, every row
\* the location's file held when the call began is still in it, at its place:
\* the file then is a prefix of the file now.
C7_NeverTruncated ==
  pc = "handle_result" =>
    /\ Len(csvFiles[state]) >= Len(fileAtCall)
    /\ SubSeq(csvFiles[state], 1, Len(fileAtCall)) = fileAtCall

\* C8: header exactly once.  Every per-location file that exists starts with
\* the header row and holds no other header row.
C8_HeaderExactlyOnce ==
  \A loc \in Locations :
    csvFiles[loc] # <<>> =>
      /\ csvFiles[loc][1] = Header
      /\ \A i \in 2..Len(csvFiles[loc]) : csvFiles[loc][i].kind = "record"

\* A resumed session has appended its rows to a file that existed.
C8_Witness ==
  /\ pc = "handle_result"
  /\ start_page > 1
  /\ all_animals # <<>>
  /\ fileAtCall # <<>>
  /\ Len(csvFiles[state]) > Len(fileAtCall)

\* C9: durability under kill.  At every point the persisted record claims no
\* more than storage holds: a completed location has the rows of all its
\* pages in its file, a partial location those of all pages below its resume
\* page.
C9_ProgressNeverAheadOfStorage ==
  /\ \A loc \in Locations :
       InSeq(loc, Persisted.completed_states) =>
         \A p \in 1..totalPages[loc] : InSeq(RowOf(loc, p), csvFiles[loc])
  /\ \A loc \in DOMAIN Persisted.partial_states :
       \A p \in 1..(Persisted.partial_states[loc].last_page - 1) :
         InSeq(RowOf(loc, p), csvFiles[loc])

\* How far a running process is from returning: it drops with every step the
\* process takes.  A state's turn of the loop counts TurnWeight; inside a
\* turn the page loop can still request the pages up to MaxPages + 1.
TurnWeight == MaxPages + 5

Measure ==
  CASE pc = "summary"       -> (Len(US_STATES) + 1) * TurnWeight + 2
    [] pc = "collect"       -> (Len(US_STATES) + 1) * TurnWeight + 1
    [] pc = "next_state"    -> Len(todo) * TurnWeight + 3
    [] pc = "request"       -> Len(todo) * TurnWeight + 6 + (MaxPages + 1 - page)
    [] pc = "flush"         -> Len(todo) * TurnWeight + 5
    [] pc = "handle_result" -> Len(todo) * TurnWeight + 4
    [] pc = "returned"      -> 2
    [] pc = "exit"          -> 1
    [] OTHER                -> 0

\* A step of the running process (not its start, not its being killed).
ProcessStep ==
  \/ GetStatusSummary
  \/ CollectAllStatesBegin
  \/ BeginState
  \/ BeginStateRaises
  \/ RequestPageOk
  \/ RequestPageRaises
  \/ ResponseBodyMalformed
  \/ FlattenRaises
  \/ PaginationMalformed
  \/ Flush
  \/ HandleCompleted
  \/ HandlePartial
  \/ LoopFinished
  \/ CombineStateFiles

\* The three ways a run of collect_all_states ends, read from the record it
\* left on disk.
EndsAllCompleted ==
  /\ outcome \in {"nothing_pending", "loop_finished"}
  /\ \A loc \in Pending : InSeq(loc, Persisted.completed_states)

EndsEarlyStop ==
  /\ outcome = "early_stop"
  /\ state \in Pending
  /\ ~InSeq(state, Persisted.completed_states)
  /\ state \in DOMAIN Persisted.partial_states
  /\ Persisted.partial_states[state].last_page = result.last_page

EndsWithFailed ==
  /\ outcome = "loop_finished"
  /\ \E loc \in Pending : ~InSeq(loc, Persisted.completed_states)
  /\ \A loc \in Pending :
       ~InSeq(loc, Persisted.completed_states) => InSeq(loc, Persisted.failed_states)

ExactlyOne(a, b, c) ==
  \/ a /\ ~b /\ ~c
  \/ ~a /\ b /\ ~c
  \/ ~a /\ ~b /\ c

\* collect_state_data is called at most once per pending location, and for
\* pending locations only.
CallsWithinPending ==
  /\ \A i \in 1..Len(calls) : calls[i][1] \in Pending
  /\ \A i, j \in 1..Len(calls) : i # j => calls[i][1] # calls[j][1]

\* C10: run outcomes and termination.  A run calls collect_state_data at most
\* once per pending location; a running process can always take a step, and
\* each step brings it nearer to its return (Measure drops, and is never
\* negative), so the run terminates; and when collect_all_states has returned
\* it has ended in exactly one of the three ways: all pending locations
\* completed, early stop with the stopping location partial at its resume
\* page, or loop finished with every non-completed pending location failed.
C10_RunOutcomes ==
  /\ [](CallsWithinPending)
  /\ [](Measure >= 0)
  /\ [](~Terminal => ENABLED ProcessStep)
  /\ [][~Terminal => Measure' < Measure]_vars
  /\ [](pc \in {"returned", "exit"} =>
          ExactlyOne(EndsAllCompleted, EndsEarlyStop, EndsWithFailed))

\* A run whose loop finished with one pending location failed and another
\* completed.
C10_Witness ==
  /\ pc = "returned"
  /\ EndsWithFailed
  /\ \E loc \in Pending : InSeq(loc, Persisted.completed_states)

\* The data rows the per-location files of the given locations hold together.
RECURSIVE RecordsStored(_)
RecordsStored(locs) ==
  IF locs = <<>> THEN 0
  ELSE Len(DataRows(csvFiles[Head(locs)])) + RecordsStored(Tail(locs))

\* A run of main() has ended that loaded an empty progress record and in
\* which collect_state_data was called for every location and returned
\* completed every time: the loop finished, and pages were requested for
\* every location.
AllCompleteRun ==
  /\ pc = "exit"
  /\ loadedProgress = EmptyProgress
  /\ outcome = "loop_finished"
  /\ \A loc \in Locations : PagesRequestedFor(loc) # <<>>

\* C11: all-complete scenario.  When a run of main() that started from an
\* empty progress record and got completed for every location has ended, the
\* persisted record lists every location of US_STATES as completed, each
\* once, has no partial and no failed entry, and the combined file holds as
\* many records as the per-location files hold together (no two locations
\* of the model share an animal id).
C11_AllComplete ==
  AllCompleteRun =>
    /\ Range(Persisted.completed_states) = Locations
    /\ Len(Persisted.completed_states) = Len(US_STATES)
    /\ DOMAIN Persisted.partial_states = {}
    /\ Persisted.failed_states = <<>>
    /\ Len(DataRows(combinedFile)) = RecordsStored(US_STATES)

\* Such a run has ended with records of at least two locations combined.
C11_Witness ==
  /\ AllCompleteRun
  /\ merge.returned = "path"
  /\ Len(merge.read) >= 2
  /\ Len(DataRows(combinedFile)) >= 2

\* ------------------------------------------------ claims on the combined file
\* The directory the most recent combine_state_files call found.
MergedDirectory == Directory(csvFiles, merge.before)

\* The lines the call read, as <<file, line>>, in the order of the concat.
RECURSIVE ReadLines(_)
ReadLines(read) ==
  IF read = <<>> THEN <<>>
  ELSE [i \in 1..Len(DataRows(MergedDirectory[Head(read)])) |-> <<Head(read), i>>]
       \o ReadLines(Tail(read))

\* The row of a per-location file a <<file, line>> pair names.
SourceRow(src) == DataRows(MergedDirectory[src[1]])[src[2]]

\* C12: dedup keeps the first occurrence.  After a combine_state_files call
\* that wrote the combined file, every animal id of the lines read is the id
\* of exactly one record of the combined file, and that record is the first
\* line with this id in the order the files were read, then line order; the
\* combined file holds no other record.
C12_DedupKeepsFirst ==
  merge.returned = "path" =>
    LET lines == ReadLines(merge.read)
        rows == DataRows(combinedFile)
    IN  /\ Len(merge.kept) = Len(rows)
        /\ \A k \in 1..Len(lines) :
             Cardinality({i \in 1..Len(rows) :
                            rows[i].id = SourceRow(lines[k]).id}) = 1
        /\ \A i \in 1..Len(rows) :
             \E k \in 1..Len(lines) :
               /\ SourceRow(lines[k]).id = rows[i].id
               /\ \A j \in 1..(k - 1) : SourceRow(lines[j]).id # rows[i].id
               /\ merge.kept[i] = lines[k]
               /\ rows[i].stateQ = SourceRow(lines[k]).stateQ

\* An animal id stood twice in the file read first and once more in the
\* file read after it.
C12_Witness ==
  /\ merge.returned = "path"
  /\ LET lines == ReadLines(merge.read)
     IN  \E a, b, c \in 1..Len(lines) :
           /\ a < b /\ b < c
           /\ lines[a][1] = lines[b][1]
           /\ lines[c][1] # lines[a][1]
           /\ SourceRow(lines[a]).id = SourceRow(lines[b]).id
           /\ SourceRow(lines[a]).id = SourceRow(lines[c]).id

\* The per-location files among the files a call read.
StateFilesRead(m) == SelectSeq(m.read, LAMBDA f : f # CombinedName)

\* C13: merge idempotence.  A combine_state_files call that reads the same
\* per-location files in the same order as the call before it, the files
\* unchanged, leaves the combined file as that call wrote it; and no call
\* lists or reads the combined file as an input.
C13_MergeIdempotent ==
  /\ [][(/\ merge.returned = "path"
         /\ merge'.returned = "path"
         /\ StateFilesRead(merge') = StateFilesRead(merge)
         /\ csvFiles' = csvFiles) => combinedFile' = combinedFile]_vars
  /\ [](/\ CombinedName \notin Range(merge.listing)
        /\ CombinedName \notin Range(merge.read))

\* A second call found the combined file of the first in the directory and
\* wrote the same again from two per-location files.
C13_Witness ==
  /\ merge.returned = "path"
  /\ merge.before # <<>>
  /\ merge.before = combinedFile
  /\ Len(merge.read) >= 2

\* C14: postal-code normalization.  In the combined file a call wrote, every
\* record read from the file of a postcode of NV_POSTCODES has stateQ_grouped
\* 'NV', every record read from the file of a two-letter code has
\* stateQ_grouped equal to that code, and stateQ is the field as it stood in
\* the per-location file.
C14_PostcodeNormalization ==
  merge.returned = "path" =>
    LET rows == DataRows(combinedFile)
    IN  \A i \in 1..Len(rows) :
          LET loc == merge.kept[i][1]
          IN  /\ rows[i].stateQ = SourceRow(merge.kept[i]).stateQ
              /\ InSeq(loc, NV_POSTCODES) => rows[i].stateQ_grouped = "NV"
              /\ InSeq(loc, DEFAULT_US_STATES) => rows[i].stateQ_grouped = loc

\* A combined file with a record of a postcode and a record of a two-letter
\* code.
C14_Witness ==
  /\ merge.returned = "path"
  /\ \E i, j \in 1..Len(merge.kept) :
       /\ InSeq(merge.kept[i][1], NV_POSTCODES)
       /\ InSeq(merge.kept[j][1], DEFAULT_US_STATES)

\* C15: merge fails gracefully.  A combine_state_files call that finds no
\* directory, or no per-location file in it, or can read none of the
\* per-location files, returns None and leaves the combined file as it was,
\* absent when it was absent.
C15_MergeFailsGracefully ==
  (/\ merge.called
   /\ \/ ~merge.dir
      \/ \A loc \in Locations : csvFiles[loc] = <<>>
      \/ merge.read = <<>>) =>
    /\ merge.returned = "None"
    /\ combinedFile = merge.before

\* A call could read none of the per-location files and left the combined
\* file of an earlier call in place.
C15_Witness ==
  /\ merge.called
  /\ merge.listing # <<>>
  /\ merge.read = <<>>
  /\ merge.returned = "None"
  /\ merge.before # <<>>

\* ------------------------------------------------ claims on _make_request
LastGet == gets[Len(gets)]

\* C16: bounded retry.  A _make_request call issues at most 3 GETs; a GET
\* answered 200 is the last one and the call returns on it; the call returns
\* on nothing else; and once 3 GETs have gone without a 200 the call has
\* raised.
C16_BoundedRetry ==
  /\ Len(gets) <= 3
  /\ \A i \in 1..(Len(gets) - 1) : gets[i].status # 200
  /\ (gets # <<>> /\ LastGet.status = 200) => xpc = "returned"
  /\ xpc = "returned" => (gets # <<>> /\ LastGet.status = 200)
  /\ (Len(gets) = 3 /\ LastGet.status # 200) => xpc = "raised"
  /\ xpc = "raised" <=> raised # "none"

\* Three GETs answered 429, 401 and a status below 400 other than 200, and
\* the call has raised.
C16_Witness ==
  /\ xpc = "raised"
  /\ Len(gets) = 3
  /\ gets[1].status = 429
  /\ gets[2].status = 401
  /\ gets[3].status = 204

\* C17 as stated: no _make_request call raises when every GET of it was
\* answered 429.
C17_RateLimitNeverSurfaces ==
  ~(/\ xpc = "raised"
    /\ gets # <<>>
    /\ \A i \in 1..Len(gets) : gets[i].status = 429)

\* C17, amended: a GET answered 429 in the first or second turn is followed
\* by another GET, the call does not end on it; a call raises after a 429
\* only when that was its third GET, and then with "All retry attempts
\* failed".
C17_RateLimitRetriedWhileAttemptsLeft ==
  /\ \A i \in 1..Len(gets) :
       (gets[i].status = 429 /\ i < 3) => (Len(gets) > i \/ xpc = "attempt")
  /\ (xpc = "raised" /\ gets # <<>> /\ LastGet.status = 429) =>
       /\ Len(gets) = 3
       /\ raised = "All retry attempts failed"

\* A call whose three GETs were all answered 429 has raised.
C17_Witness ==
  /\ xpc = "raised"
  /\ Len(gets) = 3
  /\ \A i \in 1..3 : gets[i].status = 429

\* C18: an _authenticate call that fails during a _make_request call ends
\* that call: the call has raised the exception of _authenticate, and no GET
\* was issued after it.
C18_AuthFailureFatal ==
  \A i \in 1..Len(auths) :
    ~auths[i].ok =>
      /\ xpc = "raised"
      /\ raised \in AuthErrors
      /\ Len(gets) = auths[i].gets

\* ------------------------------------------- claims on the failure paths
\* The collect_state_data call for `state` has ended with an exception and
\* the except branch of the state loop has run.
Escaped ==
  /\ calls # <<>>
  /\ ~HasResult
  /\ pc \in {"next_state", "returned"}

\* The locations collect_state_data was called for in this run, in order.
Called == [i \in 1..Len(calls) |-> calls[i][1]]

\* C19: escaped exception path.  After an exception has escaped the
\* collect_state_data call for a location, the location is in failed_states
\* of the persisted record exactly once, the persisted record is the one the
\* run holds, and the run goes on: it stands at the head of the state loop
\* with every pending location it has not called yet still to do, or the
\* loop has finished having called every pending location.
C19_EscapedException ==
  Escaped =>
    /\ Cardinality({i \in 1..Len(Persisted.failed_states) :
                      Persisted.failed_states[i] = state}) = 1
    /\ progressFile = <<progress>>
    /\ StatesToProcess(loadedProgress) = Called \o todo
    /\ pc = "returned" => (outcome = "loop_finished" /\ todo = <<>>)

\* A location that an earlier run had recorded as failed has raised again,
\* and a later location is still to do.
C19_Witness ==
  /\ Escaped
  /\ pc = "next_state"
  /\ InSeq(state, loadedProgress.failed_states)
  /\ todo # <<>>

\* C20: after response.json() has raised on a response for one location,
\* collect_all_states does not return before it has called
\* collect_state_data for every other pending location.
C20_BodyFaultDoesNotBlock ==
  (pc = "returned" /\ error = "body") => todo = <<>>

\* ------------------------------------------- claims on the state loop
\* How often x stands in the list s.
Count(x, s) == Cardinality({i \in 1..Len(s) : s[i] = x})

\* collect_all_states has passed line 549 or returned.
Started == pc \in {"next_state", "request", "flush", "handle_result", "returned"}

\* C21: completed path.  After collect_state_data has returned completed for
\* a location and the record has been saved, the location is in
\* completed_states of the persisted record exactly once and in neither
\* failed_states nor partial_states, and the run goes on: every pending
\* location not yet called is still to do, and the run returns only when the
\* loop has finished.  At every point completed_states of the persisted
\* record holds no location twice and only locations of US_STATES.
C21_CompletedPath ==
  /\ (HasResult /\ result.completed /\ pc \in {"next_state", "returned"}) =>
       /\ progressFile = <<progress>>
       /\ Count(state, Persisted.completed_states) = 1
       /\ ~InSeq(state, Persisted.failed_states)
       /\ state \notin DOMAIN Persisted.partial_states
       /\ \A loc \in Locations :
            (~InSeq(loc, loadedProgress.completed_states) /\ ~InSeq(loc, Called))
              => InSeq(loc, todo)
       /\ pc = "returned" => (outcome = "loop_finished" /\ todo = <<>>)
  /\ \A loc \in Locations : Count(loc, Persisted.completed_states) <= 1
  /\ Range(Persisted.completed_states) \subseteq Locations

\* A location the loaded record had as failed and as partial has been saved
\* as completed, and a later location is still to do.
C21_Witness ==
  /\ pc = "next_state"
  /\ HasResult /\ result.completed
  /\ InSeq(state, loadedProgress.failed_states)
  /\ state \in DOMAIN loadedProgress.partial_states
  /\ todo # <<>>

\* C22: completed locations are skipped.  No collect_state_data call and no
\* page request of a run is for a location the run loaded as completed; and
\* a run with resume=True that finds every location completed in the
\* persisted record returns at once, with no call and no request made, the
\* progress file and every CSV file left as they were.
C22_CompletedSkipped ==
  /\ [](/\ \A i \in 1..Len(calls) :
             ~InSeq(calls[i][1], loadedProgress.completed_states)
        /\ \A i \in 1..Len(requests) :
             ~InSeq(requests[i][1], loadedProgress.completed_states))
  /\ [][(/\ pc = "collect"
         /\ resume
         /\ \A loc \in Locations : InSeq(loc, Persisted.completed_states)
         /\ pc' # "killed") =>
          /\ pc' = "returned"
          /\ calls' = <<>>
          /\ requests' = <<>>
          /\ UNCHANGED disk]_vars

\* A run that found every location completed has returned; files of an
\* earlier run are on disk.
C22_Witness ==
  /\ pc = "returned"
  /\ resume
  /\ outcome = "nothing_pending"
  /\ \A loc \in Locations : InSeq(loc, loadedProgress.completed_states)
  /\ \E loc \in Locations : csvFiles[loc] # <<>>

\* The locations a record has an entry for.
EntriesOf(p) ==
  Range(p.completed_states) \cup Range(p.failed_states) \cup DOMAIN p.partial_states

\* C23: resume=False discards prior progress.  In a run with resume=False
\* the record the run starts from is empty whatever the progress file holds,
\* every location of US_STATES is called or still to do, in the order of
\* US_STATES, every call has start_page 1, the record the run holds has
\* entries only for locations the run has called, and that record is what
\* the run saves.
C23_ResumeFalseDiscards ==
  (~resume /\ Started) =>
    /\ loadedProgress = EmptyProgress
    /\ Called \o todo = US_STATES
    /\ \A i \in 1..Len(calls) : calls[i][2] = 1
    /\ EntriesOf(progress) \subseteq Range(Called)
    /\ (calls # <<>> /\ pc \in {"next_state", "returned"}) =>
         progressFile = <<progress>>

\* A run with resume=False has called the first location with start_page 1
\* while the progress file still lists that location as completed.
C23_Witness ==
  /\ ~resume
  /\ pc = "request"
  /\ state = US_STATES[1]
  /\ start_page = 1
  /\ InSeq(state, Persisted.completed_states)

\* start_page by lines 554-557, read from the record the run loaded.
LoadedStartPage(loc) ==
  IF loc \in DOMAIN loadedProgress.partial_states
  THEN loadedProgress.partial_states[loc].last_page
  ELSE 1

C25_AttemptOrder ==
  /\ \A i, j \in 1..Len(calls) : i < j => IndexOf(Called[i]) < IndexOf(Called[j])
  /\ \A i \in 1..Len(calls) :
       \A loc \in Locations :
         (IndexOf(loc) < IndexOf(Called[i])
          /\ ~InSeq(loc, loadedProgress.completed_states)) => InSeq(loc, Called)
  /\ \A i, j \in 1..Len(requests) :
       i < j => IndexOf(requests[i][1]) <= IndexOf(requests[j][1])
  /\ \A i \in 1..Len(requests) : InSeq(requests[i][1], Called)

\* A location loaded as failed has been called before a later location
\* loaded as partial.
C25_Witness ==
  /\ Len(calls) = 2
  /\ InSeq(Called[1], loadedProgress.failed_states)
  /\ Called[1] \notin DOMAIN loadedProgress.partial_states
  /\ Called[2] \in DOMAIN loadedProgress.partial_states

\* --------------------------------------------- claims on color_classifier
\* The arguments that are no colour string: None, a value that is no str, or
\* the empty string.
InvalidColorArgument ==
  colorArgument.type # "str" \/ colorArgument.value = <<>>

\* C26: color_classifier handles invalid input.  For None, a value that is
\* no string, or an empty string, the call raises nothing and returns
\* 'Unknown'.
C26_InvalidInputGivesUnknown ==
  (colorResult # NotCalled /\ InvalidColorArgument) =>
    colorResult = Returns(Unknown)

\* ------------------------------------------------ claims on the session save
\* C27: write-mode rule.  When collect_state_data has persisted a non-empty
\* session buffer, after the loop or after an exception, the location's file
\* is the file the call found followed by the buffer, without a header, if
\* start_page > 1 or the file existed; it is a new file, header then buffer,
\* only when start_page = 1 and the file did not exist.
C27_WriteModeRule ==
  (pc = "handle_result" /\ all_animals # <<>>) =>
    csvFiles[state] = IF start_page > 1 \/ fileAtCall # <<>>
                      THEN fileAtCall \o all_animals
                      ELSE <<Header>> \o all_animals

\* The rows of pages a..b of a location, in page order.
RowsOfPages(loc, a, b) == [i \in 1..(b - a + 1) |-> RowOf(loc, a + i - 1)]

\* C28: the failing page is not persisted.  When collect_state_data returns
\* a non-completed result with last_page = p, whatever raised inside the
\* page loop, the rows the session has buffered and written are exactly
\* those of pages start_page..p-1; hence a resumed session that found the
\* rows of pages 1..start_page-1 in the file, each once, leaves those of
\* pages 1..p-1 in it, each once.
C28_FailingPageNotPersisted ==
  (pc = "handle_result" /\ ~result.completed) =>
    LET rows == RowsOfPages(state, start_page, result.last_page - 1)
    IN  /\ all_animals = rows
        /\ csvFiles[state] = SaveSession(fileAtCall, start_page, rows)
        /\ (/\ start_page > 1
            /\ DataRows(fileAtCall) = RowsOfPages(state, 1, start_page - 1)) =>
             DataRows(csvFiles[state]) = RowsOfPages(state, 1, result.last_page - 1)

\* C29: partial entry accuracy.  When an invocation has returned, every
\* partial entry of the persisted record has animals_collected equal to the
\* number of data rows the location's file holds; and the entry the
\* invocation has just saved has last_page equal to the page whose request
\* was the last of the session.
C29_PartialEntryAccuracy ==
  pc = "returned" =>
    /\ \A loc \in DOMAIN Persisted.partial_states :
         Persisted.partial_states[loc].animals_collected
           = Len(DataRows(csvFiles[loc]))
    /\ (HasResult /\ ~result.completed) =>
         /\ state \in DOMAIN Persisted.partial_states
         /\ requests # <<>>
         /\ requests[Len(requests)]
              = <<state, Persisted.partial_states[state].last_page>>

\* C30: kill between flush and progress save.  When the process was killed
\* after a session resumed past page 1 had appended its rows to a
\* location's file and before the progress record was saved, the next
\* invocation with resume=True leaves no row twice in that file.
C30_KillAfterFlushNoDuplicates ==
  killedAfterFlush # "none" => NoRowTwice(csvFiles[killedAfterFlush])

\* The colours of a combination string, as line 62 lists them.
ColorsOf(color_combination) ==
  LET parts == Split(color_combination)
  IN  [i \in 1..Len(parts) |-> Strip(parts[i])]

\* A combination of several colours that has no Point colour, is no Black
\* plus White combination, and has a Tortoiseshell colour and a Tabby colour.
TortoiseshellWithTabby ==
  /\ colorArgument.type = "str"
  /\ Contains(Bar, colorArgument.value)
  /\ LET colors == ColorsOf(colorArgument.value)
     IN  /\ \A i \in 1..Len(colors) : ~Contains("Point", colors[i])
         /\ ~(Black \in Range(colors) /\ White \in Range(colors))
         /\ Tuxedo \notin Range(colors)
         /\ \E i \in 1..Len(colors) : Contains("Tortoiseshell", colors[i])
         /\ \E i \in 1..Len(colors) : Contains("Tabby", colors[i])

\* C39: Torbie rule.  For a combination of several colours without a Point
\* colour that is no Black plus White combination and holds a Tortoiseshell
\* colour and a Tabby colour, color_classifier returns 'Torbie'.
C39_TorbieRule ==
  (colorResult # NotCalled /\ TortoiseshellWithTabby) =>
    colorResult = Returns(Torbie)

\* ------------------------------------- claims on the GETs of _make_request
\* C33: every attempt carries the current credential.  Each GET of a
\* _make_request call is sent with the access token the client holds when it
\* is sent; after a 401 and a successful _authenticate the next GET carries
\* the new token.
C33_CurrentCredential ==
  \A k \in 1..Len(gets) : gets[k].token = gets[k].held

\* C34: inter-request delay.  Every GET of a call, the first and the retries
\* after any outcome, has a sleep of 2 seconds as the last sleep before it,
\* and that sleep comes after the GET before it.
C34_InterRequestDelay ==
  \A k \in 1..Len(gets) :
    /\ gets[k].slept \in 1..Len(sleeps)
    /\ sleeps[gets[k].slept] = 2
    /\ k > 1 => gets[k].slept > gets[k - 1].slept

\* Three GETs, the first lost in transport, the second answered 429, the
\* third answered 401.
C34_Witness ==
  /\ Len(gets) = 3
  /\ gets[1].status = 0
  /\ gets[2].status = 429
  /\ gets[3].status = 401

\* The sleeps of the call between its k-th GET and the sleep of line 165 of
\* the next GET, or the end of the call.
BackoffAfter(k) ==
  SubSeq(sleeps, gets[k].slept + 1,
         IF k < Len(gets) THEN gets[k + 1].slept - 1 ELSE Len(sleeps))

\* C35: backoff schedule.  A GET answered 429 in turn i is followed by one
\* sleep of 10*(i+1) seconds; a GET answered with another status than 200,
\* 401 and 429, or lost in transport, is followed by one sleep of 5*(i+1)
\* seconds when i < 2, and by none when i = 2, where the call raises; a GET
\* answered 401 is followed by no sleep.
C35_BackoffSchedule ==
  \A k \in 1..Len(gets) :
    LET i == gets[k].turn
        status == gets[k].status
    IN  /\ status = 429 => BackoffAfter(k) = <<10 * (i + 1)>>
        /\ status = 401 => BackoffAfter(k) = <<>>
        /\ status \notin {200, 401, 429} =>
             IF i < 2
             THEN BackoffAfter(k) = <<5 * (i + 1)>>
             ELSE BackoffAfter(k) = <<>> /\ xpc = "raised"

\* C36: proactive refresh.  A _make_request call calls _authenticate before
\* its first GET exactly when the time is past the token's expiry less 300
\* seconds, and goes on to its first GET exactly when that call succeeds or
\* was not needed; no refresh is made later in the call, also when the
\* margin is passed between two turns.
C36_ProactiveRefresh ==
  /\ [](\A i \in 1..Len(auths) :
          auths[i].cause = "refresh" => (i = 1 /\ auths[i].gets = 0))
  /\ [][xpc # "attempt" =>
          IF auths' = <<>>
          THEN /\ ~(now' > token_expires_at' - 300)
               /\ xpc' = "attempt"
          ELSE /\ Len(auths') = 1
               /\ auths'[1].cause = "refresh"
               /\ now' > auths'[1].left - 300
               /\ xpc' = "attempt" <=> auths'[1].ok]_vars

\* A call that began with 301 seconds left is in a later turn, past the
\* margin, and has not refreshed.
C36_Witness ==
  /\ xpc = "attempt"
  /\ attempt >= 1
  /\ auths = <<>>
  /\ now > token_expires_at - 300

\* C38: failed authentication leaves the credential unchanged.  When
\* _authenticate fails, before the first GET or after a 401, access_token
\* and token_expires_at are what they were before it was called.
C38_FailedAuthKeepsCredential ==
  [][/\ (xpc = "attempt" /\ Len(auths') = Len(auths) + 1
         /\ ~auths'[Len(auths')].ok) =>
          (access_token' = access_token /\ token_expires_at' = token_expires_at)
     /\ (xpc # "attempt" /\ auths' # <<>> /\ ~auths'[1].ok) =>
          (access_token' = 1 /\ token_expires_at' - now' = auths'[1].left)]_vars

\* A 401 was followed by a successful _authenticate, the next 401 by a
\* failed one, and the client holds the token of the successful one.
C38_Witness ==
  /\ Len(auths) = 2
  /\ auths[1].cause = "401" /\ auths[1].ok
  /\ auths[2].cause = "401" /\ ~auths[2].ok
  /\ access_token = 2
  /\ token_expires_at > ExpiresIn

\* C37: early-stop prefix invariant.  When collect_all_states has stopped
\* early at a location, every location before it in US_STATES is in
\* completed_states or in failed_states of the saved record.
C37_EarlyStopPrefix ==
  (pc = "returned" /\ outcome = "early_stop") =>
    \A loc \in Locations :
      IndexOf(loc) < IndexOf(state) =>
        \/ InSeq(loc, Persisted.completed_states)
        \/ InSeq(loc, Persisted.failed_states)

\* A run has stopped early at the second location after the first one, which
\* it had loaded as partial, raised.
C37_Witness ==
  /\ pc = "returned"
  /\ outcome = "early_stop"
  /\ Len(calls) = 2
  /\ Called[1] \in DOMAIN loadedProgress.partial_states
  /\ InSeq(Called[1], Persisted.failed_states)
  /\ ~InSeq(Called[1], Persisted.completed_states)

\* ------------------------------------- claims on the combined file, complete
\* The animal ids of the data rows of a file.
IdsOf(file) == {DataRows(file)[i].id : i \in 1..Len(DataRows(file))}

\* Every id of the set is the id of exactly one record of the combined file,
\* and the combined file holds no other id.
CombinedHoldsExactly(ids) ==
  LET rows == DataRows(combinedFile)
  IN  /\ {rows[i].id : i \in 1..Len(rows)} = ids
      /\ \A i, j \in 1..Len(rows) : rows[i].id = rows[j].id => i = j

\* C32 as stated: the combined file a call wrote holds the ids of all
\* per-location files of the directory, each once.
C32_CombinedComplete ==
  merge.returned = "path" =>
    CombinedHoldsExactly(UNION {IdsOf(csvFiles[loc]) : loc \in Locations})

\* C32, amended: the combined file a call wrote holds the ids of the
\* per-location files pd.read_csv could read, each once; it holds those of
\* all per-location files of the directory when every one of them was read.
C32_CombinedCompleteOfRead ==
  merge.returned = "path" =>
    /\ CombinedHoldsExactly(
         UNION {IdsOf(MergedDirectory[f]) : f \in Range(merge.read)})
    /\ Range(merge.read) = {loc \in Locations : csvFiles[loc] # <<>>} =>
         CombinedHoldsExactly(UNION {IdsOf(csvFiles[loc]) : loc \in Locations})

\* Two per-location files were read that share an id, and one of them holds
\* an id the other has not.
C32_Witness ==
  /\ merge.returned = "path"
  /\ \E f, g \in Range(merge.read) :
       /\ f # g
       /\ IdsOf(MergedDirectory[f]) \cap IdsOf(MergedDirectory[g]) # {}
       /\ IdsOf(MergedDirectory[f]) \ IdsOf(MergedDirectory[g]) # {}

\* ------------------------------------------------- claims on completion
\* The persisted record has every location completed and none partial or
\* failed.
AllCompleted ==
  /\ Range(Persisted.completed_states) = Locations
  /\ DOMAIN Persisted.partial_states = {}
  /\ Persisted.failed_states = <<>>

\* C31: eventual completion.  When from the last invocation on every request
\* succeeds, that invocation, made with resume=True, returns, and the
\* persisted record then has completed_states equal to the location set and
\* partial_states and failed_states empty, whatever the invocations before it
\* left behind.
C31_EventualCompletion ==
  <>[](/\ runs = MaxRuns
       /\ pc = "returned"
       /\ resume
       /\ AllCompleted)

\* The last invocation has returned with everything completed, having loaded
\* a record with a partial and a failed location.
C31_Witness ==
  /\ runs = MaxRuns
  /\ pc = "returned"
  /\ AllCompleted
  /\ DOMAIN loadedProgress.partial_states # {}
  /\ loadedProgress.failed_states # <<>>

=============================================================================
